---- MODULE Spec2Model ----
(***************************************************************************)
(* The social-media engagement dashboard of src/app.py as a state machine. *)
(* One step is one user interaction (upload a CSV, clear it, change the    *)
(* content-type multiselect, tick the date checkbox, move the date slider) *)
(* followed by the full rerun of the script: load_data, the sidebar        *)
(* widgets, the two filters and every chart guard.                         *)
(*                                                                         *)
(* Text is a sequence of one-character strings, so that the column-name    *)
(* clean-up of load_data is computed character by character.  A CSV cell   *)
(* is a record [k, n, s]: a finite decimal number (n tenths), a text that  *)
(* pandas parses as a timestamp (n hours after Monday 2024-01-01 00:00),   *)
(* any other text s, or an empty cell.  Headers hold at most one column    *)
(* per normalized name.  Library behaviour is that of pandas 2: a column   *)
(* set to pd.NaT is datetime64[ns], astype(str) writes a missing value as  *)
(* "nan", group-bys drop missing keys and list every category of a         *)
(* categorical key.                                                        *)
(***************************************************************************)
EXTENDS Integers, Sequences, FiniteSets, TLC

VARIABLES uploaded_file, checkbox, df, diagnostics, selected_post_types,
          date_filter_enabled, date_range_selection, df_filtered, views

vars == <<uploaded_file, checkbox, df, diagnostics, selected_post_types,
          date_filter_enabled, date_range_selection, df_filtered, views>>

----------------------------------------------------------------------------
(* Bounds of the explored inputs *)

MaxRows == 2
MaxTopRows == 22

(* Program constants *)

TopN == 20

----------------------------------------------------------------------------
(* Python str operations used on column names (app.py line 23) *)

Whitespace == {" ", "\t"}

Lower(c) ==
    CASE c = "P" -> "p" [] c = "I" -> "i" [] c = "D" -> "d" [] c = "L" -> "l"
      [] c = "S" -> "s" [] c = "C" -> "c" [] c = "T" -> "t" [] OTHER -> c

RECURSIVE StripLeft(_)
StripLeft(s) ==
    IF s # <<>> /\ Head(s) \in Whitespace THEN StripLeft(Tail(s)) ELSE s

RECURSIVE StripRight(_)
StripRight(s) ==
    IF s # <<>> /\ s[Len(s)] \in Whitespace
    THEN StripRight(SubSeq(s, 1, Len(s) - 1)) ELSE s

Strip(s) == StripRight(StripLeft(s))

RECURSIVE Replace(_, _, _)
Replace(s, old, new) ==
    IF s = <<>> THEN <<>>
    ELSE (IF Head(s) = old THEN new ELSE <<Head(s)>>) \o Replace(Tail(s), old, new)

LowerStr(s) == [i \in 1..Len(s) |-> Lower(s[i])]

(* col.strip().replace(' ', '_').replace('.', '').lower() *)
NormalizeColumn(col) ==
    LowerStr(Replace(Replace(Strip(col), " ", <<"_">>), ".", <<>>))

(* The column names load_data and the chart guards look for *)
POST_ID == <<"p","o","s","t","_","i","d">>
POST_DATE == <<"p","o","s","t","_","d","a","t","e">>
DAY_OF_WEEK == <<"d","a","y","_","o","f","_","w","e","e","k">>
DAY_OF_WEEK_NUM == <<"d","a","y","_","o","f","_","w","e","e","k","_","n","u","m">>
LIKES == <<"l","i","k","e","s">>
SHARES == <<"s","h","a","r","e","s">>
COMMENTS == <<"c","o","m","m","e","n","t","s">>
TOTAL_ENGAGEMENT == <<"t","o","t","a","l","_","e","n","g","a","g","e","m","e","n","t","_","p","e","r","_","p","o","s","t">>
CONTENT_TYPE == <<"c","o","n","t","e","n","t","_","t","y","p","e">>

engagement_cols == <<LIKES, SHARES, COMMENTS>>

day_order == <<"Monday", "Tuesday", "Wednesday", "Thursday", "Friday", "Saturday", "Sunday">>

----------------------------------------------------------------------------
(* CSV cells and the pandas conversions load_data applies to them *)

Num(tenths) == [k |-> "num", n |-> tenths, s |-> ""]
Stamp(hours) == [k |-> "date", n |-> hours, s |-> ""]
Text(t) == [k |-> "text", n |-> 0, s |-> t]
Empty == [k |-> "empty", n |-> 0, s |-> ""]

NaT == -1
NaN == "<NaN>"
None == "<None>"
NoneNum == -1

(* .astype(str): a missing cell becomes the text "nan" *)
AsTypeStr(cell) == IF cell.k = "empty" THEN "nan" ELSE cell.s

(* pd.to_datetime(..., errors='coerce'): unparseable or missing becomes NaT *)
ToDatetime(cell) == IF cell.k = "date" THEN cell.n ELSE NaT

TruncTowardZero(tenths) ==
    IF tenths >= 0 THEN tenths \div 10 ELSE -((-tenths) \div 10)

(* variant: the cast rounds down instead of toward zero *)
ToNumericFloor(cell) == IF cell.k = "num" THEN cell.n \div 10 ELSE 0

(* pd.to_numeric(..., errors='coerce').fillna(0).astype(int) *)
ToNumericInt(cell) == IF cell.k = "num" THEN TruncTowardZero(cell.n) ELSE 0

(* .dt.date, .dt.dayofweek (Monday=0) and .dt.day_name() of a timestamp *)
DateOf(ts) == ts \div 24
DayOfWeekNum(ts) == DateOf(ts) % 7
DayName(ts) == day_order[DayOfWeekNum(ts) + 1]

----------------------------------------------------------------------------
(* load_data (app.py lines 16-69) *)

EmptyDataFrame == [columns |-> {}, rows |-> <<>>]

(* An st.error / st.warning / st.info call: its severity, its line in app.py
   and the column it is about *)
Diag(sev, line, what) == [severity |-> sev, at |-> line, about |-> what]

HasColumn(cols, name) == \E i \in 1..Len(cols) : cols[i] = name
ColumnAt(cols, name) == CHOOSE i \in 1..Len(cols) : cols[i] = name
CellOf(file, cols, r, name) == file.rows[r][ColumnAt(cols, name)]

Indices(rows) == [r \in 1..Len(rows) |-> r]

(* variant: no dropna, rows with NaT dates stay *)
KeepAllDates(file, cols) == Indices(file.rows)

(* variant: dropna() without subset, a row with any missing cell goes *)
DropNaAny(file, cols) ==
    SelectSeq(Indices(file.rows),
              LAMBDA r : /\ ToDatetime(CellOf(file, cols, r, POST_DATE)) # NaT
                         /\ \A i \in 1..Len(cols) : file.rows[r][i].k # "empty")

(* df.dropna(subset=['post_date']): the positions of the rows that stay *)
DropNaDates(file, cols) ==
    SelectSeq(Indices(file.rows),
              LAMBDA r : ToDatetime(CellOf(file, cols, r, POST_DATE)) # NaT)

KeptRows(file, cols) ==
    IF HasColumn(cols, POST_DATE) THEN DropNaDates(file, cols) ELSE Indices(file.rows)

Metric(file, cols, r, name) ==
    IF HasColumn(cols, name) THEN ToNumericInt(CellOf(file, cols, r, name)) ELSE 0

(* variant: comments left out of the total *)
TotalLikesShares(likes, shares, comments) == likes + shares

TotalEngagement(likes, shares, comments) == likes + shares + comments

ContentTypeOf(file, cols, r) ==
    IF ~HasColumn(cols, CONTENT_TYPE) THEN "Unknown"
    ELSE LET c == CellOf(file, cols, r, CONTENT_TYPE)
         IN  IF c.k = "empty" THEN NaN ELSE c.s

CanonicalRow(file, cols, r) ==
    LET hasDate == HasColumn(cols, POST_DATE)
        ts == IF hasDate THEN ToDatetime(CellOf(file, cols, r, POST_DATE)) ELSE NaT
        l == Metric(file, cols, r, LIKES)
        s == Metric(file, cols, r, SHARES)
        c == Metric(file, cols, r, COMMENTS)
    IN  [idx |-> r - 1,
         post_id |-> AsTypeStr(CellOf(file, cols, r, POST_ID)),
         post_date |-> ts,
         day_of_week |-> IF hasDate THEN DayName(ts) ELSE None,
         day_of_week_num |-> IF hasDate THEN DayOfWeekNum(ts) ELSE NoneNum,
         likes |-> l, shares |-> s, comments |-> c,
         total_engagement_per_post |-> TotalEngagement(l, s, c),
         content_type |-> ContentTypeOf(file, cols, r)]

AddedColumns ==
    {POST_DATE, DAY_OF_WEEK, DAY_OF_WEEK_NUM, LIKES, SHARES, COMMENTS,
     TOTAL_ENGAGEMENT, CONTENT_TYPE}

MissingWarning(cols, name) ==
    IF HasColumn(cols, name) THEN <<>> ELSE <<Diag("warning", IF name = POST_DATE THEN 43 ELSE IF name = CONTENT_TYPE THEN 63 ELSE 55, name)>>

LoadWarnings(cols) ==
    MissingWarning(cols, POST_DATE) \o MissingWarning(cols, LIKES)
      \o MissingWarning(cols, SHARES) \o MissingWarning(cols, COMMENTS)
      \o MissingWarning(cols, CONTENT_TYPE)

(* variant: the missing column is reported with st.warning *)
PostIdMissingAsWarning ==
    [df |-> EmptyDataFrame, diags |-> <<Diag("warning", 28, POST_ID)>>]

(* lines 27-29: st.error(...) and return pd.DataFrame() *)
PostIdMissing == [df |-> EmptyDataFrame, diags |-> <<Diag("error", 28, POST_ID)>>]

(* lines 67-69: the except branch *)
LoadFailed == [df |-> EmptyDataFrame, diags |-> <<Diag("error", 68, <<>>)>>]

load_data(file) ==
    IF file.kind # "csv"
    THEN (* pd.read_csv raises *) LoadFailed
    ELSE LET cols == [i \in 1..Len(file.columns) |-> NormalizeColumn(file.columns[i])]
             kept == KeptRows(file, cols)
         IN  IF ~HasColumn(cols, POST_ID)
             THEN PostIdMissing
             ELSE [df |-> [columns |-> {cols[i] : i \in 1..Len(cols)} \cup AddedColumns,
                           rows |-> [j \in 1..Len(kept) |-> CanonicalRow(file, cols, kept[j])]],
                   diags |-> LoadWarnings(cols)]

----------------------------------------------------------------------------
(* Data-frame helpers *)

(* DataFrame.empty: no columns or no rows *)
IsEmpty(t) == t.columns = {} \/ t.rows = <<>>

RECURSIVE SumTo(_, _, _)
SumTo(rows, col, n) == IF n = 0 THEN 0 ELSE rows[n][col] + SumTo(rows, col, n - 1)

SumOf(rows, col) == SumTo(rows, col, Len(rows))

RECURSIVE SortedSeq(_)
SortedSeq(S) ==
    IF S = {} THEN <<>>
    ELSE LET m == CHOOSE x \in S : \A y \in S : x <= y
         IN  <<m>> \o SortedSeq(S \ {m})

(* df['content_type'].unique() *)
unique_types(t) == {t.rows[i].content_type : i \in 1..Len(t.rows)}

ValidDates(t) ==
    {DateOf(t.rows[i].post_date) : i \in {j \in 1..Len(t.rows) : t.rows[j].post_date # NaT}}

(* df['post_date'].min().date() and .max().date(); NaT when no row has a date *)
min_date_data(t) ==
    IF ValidDates(t) = {} THEN NaT
    ELSE CHOOSE d \in ValidDates(t) : \A e \in ValidDates(t) : d <= e

max_date_data(t) ==
    IF ValidDates(t) = {} THEN NaT
    ELSE CHOOSE d \in ValidDates(t) : \A e \in ValidDates(t) : d >= e

----------------------------------------------------------------------------
(* Sidebar widgets (app.py lines 88-119) *)

(* line 90: the multiselect is shown *)
MultiselectShown(t) == CONTENT_TYPE \in t.columns /\ ~IsEmpty(t)

TypeOptions(t) == {"All"} \cup unique_types(t)

(* line 102: the checkbox is shown; the post_date column is datetime64[ns]
   both when parsed (line 34) and when filled with pd.NaT (line 44) *)
CheckboxShown(t) == POST_DATE \in t.columns /\ t.rows # <<>>

----------------------------------------------------------------------------
(* Apply filters (app.py lines 121-131) *)

IsIn(rows, sel) == SelectSeq(rows, LAMBDA r : r.content_type \in sel)

CategoryFilter(t, sel) ==
    IF CONTENT_TYPE \in t.columns /\ "All" \notin sel
    THEN [t EXCEPT !.rows = IsIn(t.rows, sel)]
    ELSE t

(* variant: the end of the range is excluded *)
InRangeEndExcluded(rows, range) ==
    SelectSeq(rows, LAMBDA r : r.post_date # NaT
                               /\ DateOf(r.post_date) >= range[1]
                               /\ DateOf(r.post_date) < range[2])

InRange(rows, range) ==
    SelectSeq(rows, LAMBDA r : r.post_date # NaT
                               /\ DateOf(r.post_date) >= range[1]
                               /\ DateOf(r.post_date) <= range[2])

DateFilter(t, enabled, range) ==
    IF enabled THEN [t EXCEPT !.rows = InRange(t.rows, range)] ELSE t

----------------------------------------------------------------------------
(* Dashboard content (app.py lines 135-309) *)

NotComputed == [computed |-> FALSE, rows |-> <<>>]
Computed(rows) == [computed |-> TRUE, rows |-> rows]

MaxEngagement(rows) ==
    CHOOSE m \in {rows[i].total_engagement_per_post : i \in 1..Len(rows)} :
        \A i \in 1..Len(rows) : rows[i].total_engagement_per_post <= m

(* position of the first row holding the largest total engagement *)
FirstMax(rows) ==
    LET m == MaxEngagement(rows)
    IN  CHOOSE i \in 1..Len(rows) :
            /\ rows[i].total_engagement_per_post = m
            /\ \A j \in 1..(i - 1) : rows[j].total_engagement_per_post # m

(* r put into s, which is in descending order of total engagement, behind
   the rows that have at least its engagement *)
InsertDesc(s, r) ==
    LET k == Cardinality({j \in 1..Len(s) :
                 s[j].total_engagement_per_post >= r.total_engagement_per_post})
    IN  SubSeq(s, 1, k) \o <<r>> \o SubSeq(s, k + 1, Len(s))

(* variant: r goes in front of the rows of equal engagement *)
InsertDescInFront(s, r) ==
    LET k == Cardinality({j \in 1..Len(s) :
                 s[j].total_engagement_per_post > r.total_engagement_per_post})
    IN  SubSeq(s, 1, k) \o <<r>> \o SubSeq(s, k + 1, Len(s))

(* the first n rows in descending, stable order *)
RECURSIVE SortDesc(_, _)
SortDesc(rows, n) ==
    IF n = 0 THEN <<>> ELSE InsertDesc(SortDesc(rows, n - 1), rows[n])

RECURSIVE SortDescLast(_, _)
SortDescLast(rows, n) ==
    IF n = 0 THEN <<>> ELSE InsertDescInFront(SortDescLast(rows, n - 1), rows[n])

(* variant: keep='last', ties go to the later rows *)
nlargest_keep_last(n, rows) ==
    SubSeq(SortDescLast(rows, Len(rows)), 1, IF n < Len(rows) THEN n ELSE Len(rows))

(* DataFrame.nlargest(n, 'total_engagement_per_post'), keep='first' *)
nlargest(n, rows) ==
    SubSeq(SortDesc(rows, Len(rows)), 1, IF n < Len(rows) THEN n ELSE Len(rows))

(* lines 148-154 *)
Kpis(rows) ==
    <<[total_posts |-> Len(rows),
       total_likes |-> SumOf(rows, "likes"),
       total_shares |-> SumOf(rows, "shares"),
       total_comments |-> SumOf(rows, "comments"),
       engagement_sum |-> SumOf(rows, "total_engagement_per_post")]>>

(* the content types of the explored inputs, in sort order *)
TypesSorted == <<"Image", "Unknown", "Video">>

RowsOfType(rows, ty) == SelectSeq(rows, LAMBDA r : r.content_type = ty)

(* groupby keys: missing (NaN) keys are dropped, the rest sorted *)
GroupKeys(rows) ==
    SelectSeq(TypesSorted, LAMBDA ty : \E i \in 1..Len(rows) : rows[i].content_type = ty)

(* line 198: value_counts(), listed by content type: the order of the
   slices is not modelled *)
post_type_counts(rows) ==
    [i \in 1..Len(GroupKeys(rows)) |->
        [content_type |-> GroupKeys(rows)[i],
         count |-> Len(RowsOfType(rows, GroupKeys(rows)[i]))]]

(* line 249: groupby('content_type')[['likes','shares','comments']].sum().reset_index() *)
df_type_engagement(rows) ==
    [i \in 1..Len(GroupKeys(rows)) |->
        LET g == RowsOfType(rows, GroupKeys(rows)[i])
        IN  [content_type |-> GroupKeys(rows)[i],
             likes |-> SumOf(g, "likes"),
             shares |-> SumOf(g, "shares"),
             comments |-> SumOf(g, "comments")]]

(* line 216: groupby(post_date.dt.date)[total].sum().reset_index() *)
df_daily_engagement(rows) ==
    LET days == SortedSeq({DateOf(rows[i].post_date) :
                             i \in {j \in 1..Len(rows) : rows[j].post_date # NaT}})
    IN  [i \in 1..Len(days) |->
            [post_date |-> days[i],
             total_engagement_per_post |->
                 SumOf(SelectSeq(rows, LAMBDA r : r.post_date # NaT /\ DateOf(r.post_date) = days[i]),
                       "total_engagement_per_post")]]

(* line 230: groupby('day_of_week')[total].sum().reset_index(); the column is
   the Monday..Sunday categorical of line 41, or all None (line 45) *)
engagement_by_day(rows) ==
    IF \A i \in 1..Len(rows) : rows[i].day_of_week = None THEN <<>>
    ELSE [d \in 1..Len(day_order) |->
            [day_of_week |-> day_order[d],
             total_engagement_per_post |->
                 SumOf(SelectSeq(rows, LAMBDA r : r.day_of_week = day_order[d]),
                       "total_engagement_per_post")]]

(* line 287: df_filtered.loc[df_filtered['total_engagement_per_post'].idxmax()] *)
top_post(rows) == <<rows[FirstMax(rows)]>>

NoViews ==
    [kpis |-> NotComputed, top_posts |-> NotComputed, post_type_counts |-> NotComputed,
     daily_engagement |-> NotComputed, engagement_by_day |-> NotComputed,
     type_engagement |-> NotComputed, scatter |-> NotComputed, top_post |-> NotComputed]

HasAll(t, names) == \A i \in 1..Len(names) : names[i] \in t.columns

(* lines 142-309, run when neither df nor df_filtered is empty *)
Dashboard(t) ==
    [kpis |-> Computed(Kpis(t.rows)),
     top_posts |->
        IF POST_ID \in t.columns /\ HasAll(t, engagement_cols)
        THEN Computed(nlargest(TopN, t.rows)) ELSE NotComputed,
     post_type_counts |->
        IF CONTENT_TYPE \in t.columns /\ t.rows # <<>>
        THEN Computed(post_type_counts(t.rows)) ELSE NotComputed,
     daily_engagement |->
        IF POST_DATE \in t.columns /\ TOTAL_ENGAGEMENT \in t.columns /\ t.rows # <<>>
        THEN Computed(df_daily_engagement(t.rows)) ELSE NotComputed,
     engagement_by_day |->
        IF DAY_OF_WEEK \in t.columns /\ TOTAL_ENGAGEMENT \in t.columns /\ t.rows # <<>>
        THEN Computed(engagement_by_day(t.rows)) ELSE NotComputed,
     type_engagement |->
        IF CONTENT_TYPE \in t.columns /\ HasAll(t, engagement_cols) /\ t.rows # <<>>
        THEN Computed(df_type_engagement(t.rows)) ELSE NotComputed,
     scatter |->
        IF LIKES \in t.columns /\ COMMENTS \in t.columns /\ t.rows # <<>>
        THEN Computed(t.rows) ELSE NotComputed,
     top_post |->
        IF POST_ID \in t.columns /\ TOTAL_ENGAGEMENT \in t.columns /\ ~IsEmpty(t)
        THEN Computed(top_post(t.rows)) ELSE NotComputed]

----------------------------------------------------------------------------
(* One run of the script (app.py lines 71-309) *)

NoFile == [kind |-> "none", columns |-> <<>>, rows |-> <<>>]

(* line 83: df = load_data(uploaded_file) when a file is there; st.cache_data
   returns the stored result, and replays its messages, on every later rerun *)
Loaded(file) ==
    IF file = NoFile THEN [df |-> EmptyDataFrame, diags |-> <<>>] ELSE load_data(file)

(* lines 85-309 with the widgets' values: the multiselect (line 92), the
   checkbox (line 103) and the slider (line 113, <<>> for its default) *)
Rerun(loaded, multiselect, ticked, slider) ==
    /\ df' = loaded.df
    /\ selected_post_types' = (IF MultiselectShown(df') THEN multiselect ELSE {"All"})
    /\ checkbox' = (CheckboxShown(df') /\ ticked)
    /\ date_filter_enabled' =
          (checkbox' /\ min_date_data(df') # NaT /\ max_date_data(df') # NaT)
    /\ date_range_selection' =
          (IF ~date_filter_enabled' THEN <<>>
           ELSE IF slider = <<>> THEN <<min_date_data(df'), max_date_data(df')>>
           ELSE slider)
    /\ df_filtered' =
          DateFilter(CategoryFilter(df', selected_post_types'),
                     date_filter_enabled', date_range_selection')
    /\ diagnostics' =
          [load |-> loaded.diags,
           sidebar |-> IF checkbox' /\ ~date_filter_enabled'
                       THEN <<Diag("warning", 110, POST_DATE)>> ELSE <<>>,
           main |-> IF IsEmpty(df') THEN <<Diag("info", 137, <<>>)>>
                    ELSE IF IsEmpty(df_filtered') THEN <<Diag("warning", 140, <<>>)>>
                    ELSE <<>>]
    /\ views' = (IF IsEmpty(df') \/ IsEmpty(df_filtered') THEN NoViews
                 ELSE Dashboard(df_filtered'))

Cached == [df |-> df, diags |-> diagnostics.load]

Init ==
    /\ uploaded_file = NoFile
    /\ checkbox = FALSE
    /\ df = EmptyDataFrame
    /\ diagnostics = [load |-> <<>>, sidebar |-> <<>>, main |-> <<Diag("info", 137, <<>>)>>]
    /\ selected_post_types = {"All"}
    /\ date_filter_enabled = FALSE
    /\ date_range_selection = <<>>
    /\ df_filtered = EmptyDataFrame
    /\ views = NoViews

(* the user picks a CSV in the empty file uploader; the widgets of the
   sidebar start from their defaults *)
UploadFile(file) ==
    /\ uploaded_file = NoFile
    /\ uploaded_file' = file
    /\ Rerun(Loaded(file), {"All"}, FALSE, <<>>)

(* the user clears the file uploader *)
RemoveFile ==
    /\ uploaded_file # NoFile
    /\ uploaded_file' = NoFile
    /\ Rerun(Loaded(NoFile), {"All"}, FALSE, <<>>)

(* the user changes the content-type multiselect *)
SelectTypes(sel) ==
    /\ MultiselectShown(df)
    /\ sel # selected_post_types
    /\ Rerun(Cached, sel, checkbox, date_range_selection)
    /\ UNCHANGED uploaded_file

(* the user ticks or clears "Enable Date Filter" *)
ToggleDateFilter ==
    /\ CheckboxShown(df)
    /\ Rerun(Cached, selected_post_types, ~checkbox, <<>>)
    /\ UNCHANGED uploaded_file

(* the user moves the date slider *)
MoveSlider(start, end) ==
    /\ date_filter_enabled
    /\ min_date_data(df) <= start /\ start <= end /\ end <= max_date_data(df)
    /\ <<start, end>> # date_range_selection
    /\ Rerun(Cached, selected_post_types, checkbox, <<start, end>>)
    /\ UNCHANGED uploaded_file

----------------------------------------------------------------------------
(* The explored uploads.  A CSV is built from a header, a sequence of
   <<raw column name, cell role>>, and rows that give a cell for every role;
   the file holds only the raw names and the cells of the header's columns. *)

MkFile(header, fullRows) ==
    [kind |-> "csv",
     columns |-> [i \in 1..Len(header) |-> header[i][1]],
     rows |-> [r \in 1..Len(fullRows) |->
                 [i \in 1..Len(header) |-> fullRows[r][header[i][2]]]]]

(* a zero-byte file: pd.read_csv raises EmptyDataError *)
EmptyFile == [kind |-> "empty", columns |-> <<>>, rows |-> <<>>]

IdSpellings == {<<"P","o","s","t"," ","I","D">>, <<"P","o","s","t",".","I","D">>}

OptionalColumns ==
    << <<<<" ","P","o","s","t"," ","D","a","t","e">>, "date">>,
       <<<<"L","i","k","e","s">>, "likes">>,
       <<<<"S","h","a","r","e","s"," ">>, "shares">>,
       <<<<"C","o","m","m","e","n","t","s">>, "comments">>,
       <<<<"C","o","n","t","e","n","t","_","T","y","p","e">>, "type">> >>

Roles == {"date", "likes", "shares", "comments", "type"}

(* the optional columns a header leaves out: none, any one, all, all metrics,
   or date and type *)
Dropped ==
    {{}, Roles, {"likes", "shares", "comments"}, {"date", "type"}}
      \cup {{r} : r \in Roles}

Headers ==
    {SelectSeq(OptionalColumns, LAMBDA c : c[2] \notin drop) : drop \in Dropped}
      \cup {<<<<name, "id">>>> \o SelectSeq(OptionalColumns, LAMBDA c : c[2] \notin drop) :
              name \in IdSpellings, drop \in Dropped}

RowChoices ==
    {[id |-> Text("p1"), date |-> Stamp(23), likes |-> Num(20), shares |-> Num(10),
      comments |-> Num(10), type |-> Text("Video")],
     [id |-> Text("p2"), date |-> Stamp(24), likes |-> Num(-15), shares |-> Empty,
      comments |-> Text("n/a"), type |-> Text("Image")],
     [id |-> Empty, date |-> Stamp(50), likes |-> Num(15), shares |-> Num(30),
      comments |-> Num(0), type |-> Empty],
     [id |-> Text("p1"), date |-> Text("soon"), likes |-> Text("many"), shares |-> Num(10),
      comments |-> Num(25), type |-> Text("Video")],
     [id |-> Text("p3"), date |-> Empty, likes |-> Num(70), shares |-> Num(0),
      comments |-> Empty, type |-> Text("Image")]}

Tables == UNION {[1..n -> RowChoices] : n \in 0..MaxRows}

Uploads == {MkFile(h, t) : h \in Headers, t \in Tables} \cup {EmptyFile}

Next ==
    \/ \E file \in Uploads : UploadFile(file)
    \/ RemoveFile
    \/ \E sel \in SUBSET TypeOptions(df) : SelectTypes(sel)
    \/ ToggleDateFilter
    \/ \E start \in min_date_data(df)..max_date_data(df) :
         \E end \in start..max_date_data(df) : MoveSlider(start, end)

Spec == Init /\ [][Next]_vars

----------------------------------------------------------------------------
(* Uploads long enough for the top-20 cut: a run of equal Video rows, a
   second run of equal rows and at most one closing row *)

RunKinds ==
    {[likes |-> l, type |-> ty] : l \in {Num(10), Num(25)}, ty \in {Text("Video"), Text("Image")}}

RunRows(kind, n) ==
    [i \in 1..n |->
        [id |-> Text("p1"), date |-> Empty, likes |-> kind.likes, shares |-> Empty,
         comments |-> Empty, type |-> kind.type]]

TopHeader ==
    <<<<<<"P","o","s","t","_","I","D">>, "id">>, <<<<"L","i","k","e","s">>, "likes">>,
      <<<<"C","o","n","t","e","n","t","_","T","y","p","e">>, "type">>>>

(* tables of MaxTopRows - 2 to MaxTopRows rows; the filters cut shorter views *)
TopLengths ==
    {<<n, len - n - k, k>> : n \in 1..MaxTopRows, len \in (MaxTopRows - 2)..MaxTopRows,
                             k \in {0, 1}} \cap (Nat \X Nat \X Nat)

TopUploads ==
    {MkFile(TopHeader, RunRows(a, nmk[1]) \o RunRows(b, nmk[2]) \o RunRows(c, nmk[3])) :
        a \in {r \in RunKinds : r.type = Text("Video")}, b \in RunKinds, c \in RunKinds,
        nmk \in TopLengths}

NextTop ==
    \/ \E file \in TopUploads : UploadFile(file)
    \/ \E sel \in SUBSET TypeOptions(df) : SelectTypes(sel)

SpecTop == Init /\ [][NextTop]_vars

----------------------------------------------------------------------------
(* Properties *)

IsCsv == uploaded_file.kind = "csv"

FileColumns ==
    [i \in 1..Len(uploaded_file.columns) |-> NormalizeColumn(uploaded_file.columns[i])]

InputHas(name) == IsCsv /\ HasColumn(FileColumns, name)

RawCell(r, name) == CellOf(uploaded_file, FileColumns, r, name)

AllDiagnostics == diagnostics.load \o diagnostics.sidebar \o diagnostics.main

Count(sev) == Len(SelectSeq(AllDiagnostics, LAMBDA d : d.severity = sev))

(* the condition of line 124 *)
CategoryFilterApplied ==
    CONTENT_TYPE \in df.columns /\ "All" \notin selected_post_types

InputRows == Indices(uploaded_file.rows)

(* C1: a CSV whose normalized header lacks post_id gives an empty dataset,
   exactly one error and no warning, no filter is applied and no view is
   computed; a CSV that has post_id is loaded without the missing-column
   error of line 28. *)
C1_MissingPostIdHalts ==
    /\ (IsCsv /\ ~InputHas(POST_ID)) =>
          /\ df = EmptyDataFrame
          /\ Count("error") = 1
          /\ Count("warning") = 0
          /\ ~CategoryFilterApplied
          /\ ~date_filter_enabled
          /\ df_filtered = df
          /\ views = NoViews
    /\ InputHas(POST_ID) =>
          /\ \A i \in 1..Len(AllDiagnostics) :
                ~(AllDiagnostics[i].severity = "error" /\ AllDiagnostics[i].at = 28)
          /\ POST_ID \in df.columns

C1_Witness ==
    /\ IsCsv
    /\ ~InputHas(POST_ID)
    /\ Len(uploaded_file.columns) > 1
    /\ Len(uploaded_file.rows) > 0

(* C2: on every row of the canonical dataset and of the filtered view the
   total engagement is likes + shares + comments, also when a metric column
   is absent from the input. *)
C2_TotalIsSum ==
    /\ \A j \in 1..Len(df.rows) :
          df.rows[j].total_engagement_per_post
            = df.rows[j].likes + df.rows[j].shares + df.rows[j].comments
    /\ \A j \in 1..Len(df_filtered.rows) :
          df_filtered.rows[j].total_engagement_per_post
            = df_filtered.rows[j].likes + df_filtered.rows[j].shares
                + df_filtered.rows[j].comments

C2_Witness ==
    /\ InputHas(POST_ID)
    /\ ~InputHas(LIKES)
    /\ InputHas(COMMENTS)
    /\ CategoryFilterApplied
    /\ Len(df_filtered.rows) < Len(df.rows)
    /\ \E j \in 1..Len(df_filtered.rows) :
          /\ df_filtered.rows[j].comments > 0
          /\ df_filtered.rows[j].shares > 0

(* C3: every raw column name is trimmed, its spaces and its dots replaced by
   underscores, and lower-cased; a header spelled "Post.ID" therefore passes
   the post_id check. *)
ClaimedNormalize(col) ==
    LowerStr(Replace(Replace(Strip(col), " ", <<"_">>), ".", <<"_">>))

C3_DotsBecomeUnderscores ==
    IsCsv =>
      /\ \A i \in 1..Len(uploaded_file.columns) :
            NormalizeColumn(uploaded_file.columns[i])
              = ClaimedNormalize(uploaded_file.columns[i])
      /\ (\E i \in 1..Len(uploaded_file.columns) :
            ClaimedNormalize(uploaded_file.columns[i]) = POST_ID)
          => (Count("error") = 0 /\ POST_ID \in df.columns)

MetricColumns == {<<LIKES, "likes">>, <<SHARES, "shares">>, <<COMMENTS, "comments">>}

(* C4 as stated: no metric of the canonical dataset is negative. *)
C4_MetricsNonNegative ==
    \A j \in 1..Len(df.rows) :
        df.rows[j].likes >= 0 /\ df.rows[j].shares >= 0 /\ df.rows[j].comments >= 0

(* the integer v is the decimal number of n tenths cut toward zero *)
CutTowardZero(n, v) ==
    IF n >= 0 THEN 10 * v <= n /\ n < 10 * v + 10
    ELSE 10 * v >= n /\ n > 10 * v - 10

(* C4 amended: every metric is an integer: 0 for an absent column, an empty
   or a non-numeric cell, and a numeric cell's value cut toward zero, so a
   negative number in the input stays negative. *)
C4_MetricsTruncated ==
    InputHas(POST_ID) =>
      \A j \in 1..Len(df.rows) : \A m \in MetricColumns :
          LET v == df.rows[j][m[2]]
          IN  IF ~InputHas(m[1]) THEN v = 0
              ELSE LET c == RawCell(df.rows[j].idx + 1, m[1])
                   IN  IF c.k = "num" THEN CutTowardZero(c.n, v) ELSE v = 0

C4_Witness ==
    \E j \in 1..Len(df.rows) :
        /\ df.rows[j].likes < 0
        /\ RawCell(df.rows[j].idx + 1, LIKES).k = "num"
        /\ InputHas(COMMENTS)
        /\ RawCell(df.rows[j].idx + 1, COMMENTS).k = "text"

(* C5 as stated: a loaded dataset holds no row whose post_id cell was missing
   in the input; otherwise the dataset is empty and an error was reported. *)
C5_NoMissingIdLoaded ==
    \/ \A j \in 1..Len(df.rows) : RawCell(df.rows[j].idx + 1, POST_ID).k # "empty"
    \/ (df = EmptyDataFrame /\ Count("error") >= 1)

(* C5 amended: load_data only checks that the post_id column exists.  Every
   input row that survives date parsing is loaded with a text post_id, the
   text "nan" when its post_id cell is missing; a file that gives the empty
   DataFrame() comes with exactly one reported error. *)
C5_MissingIdRowsKept ==
    /\ InputHas(POST_ID) =>
          \A r \in 1..Len(uploaded_file.rows) :
              (InputHas(POST_DATE) => RawCell(r, POST_DATE).k = "date") =>
                  \E j \in 1..Len(df.rows) :
                      /\ df.rows[j].idx = r - 1
                      /\ df.rows[j].post_id
                           = (IF RawCell(r, POST_ID).k = "empty" THEN "nan"
                              ELSE RawCell(r, POST_ID).s)
    /\ (uploaded_file # NoFile /\ df = EmptyDataFrame) => Count("error") = 1

C5_Witness ==
    /\ InputHas(POST_DATE)
    /\ \E j \in 1..Len(df.rows) :
          /\ RawCell(df.rows[j].idx + 1, POST_ID).k = "empty"
          /\ df.rows[j].post_id = "nan"

(* C6: with a post_date column the canonical dataset is exactly the input
   rows whose date parses, in input order; without it no row is removed and
   every row has a null post_date and day_of_week.  Metric cells never
   decide whether a row stays. *)
C6_DateRowsExactlyKept ==
    InputHas(POST_ID) =>
      IF InputHas(POST_DATE)
      THEN /\ [j \in 1..Len(df.rows) |-> df.rows[j].idx + 1]
                = SelectSeq(InputRows, LAMBDA r : RawCell(r, POST_DATE).k = "date")
           /\ \A j \in 1..Len(df.rows) :
                 /\ df.rows[j].post_date # NaT
                 /\ df.rows[j].post_date = RawCell(df.rows[j].idx + 1, POST_DATE).n
      ELSE /\ [j \in 1..Len(df.rows) |-> df.rows[j].idx + 1] = InputRows
           /\ \A j \in 1..Len(df.rows) :
                 df.rows[j].post_date = NaT /\ df.rows[j].day_of_week = None

C6_Witness ==
    /\ InputHas(POST_ID)
    /\ InputHas(POST_DATE)
    /\ InputHas(COMMENTS)
    /\ Len(df.rows) > 0
    /\ Len(df.rows) < Len(uploaded_file.rows)
    /\ \E j \in 1..Len(df.rows) : RawCell(df.rows[j].idx + 1, COMMENTS).k = "text"

(* C7: with post_id present, each absent optional column is reported by a
   warning and the views that need it are skipped: without post_date the
   date filter is not applied and the per-day and per-weekday views are not
   computed; without content_type the distribution and the breakdown are
   not computed. *)
C7_AbsentColumnViewsSkipped ==
    InputHas(POST_ID) =>
      /\ \A name \in {POST_DATE, LIKES, SHARES, COMMENTS, CONTENT_TYPE} :
            ~InputHas(name) =>
                \E i \in 1..Len(diagnostics.load) :
                    /\ diagnostics.load[i].severity = "warning"
                    /\ diagnostics.load[i].about = name
      /\ ~InputHas(POST_DATE) =>
            /\ ~date_filter_enabled
            /\ ~views.daily_engagement.computed
            /\ ~views.engagement_by_day.computed
      /\ ~InputHas(CONTENT_TYPE) =>
            /\ ~views.post_type_counts.computed
            /\ ~views.type_engagement.computed

KeepByType(r) == "All" \in selected_post_types \/ r.content_type \in selected_post_types

KeepByDate(r) ==
    \/ ~date_filter_enabled
    \/ /\ r.post_date # NaT
       /\ date_range_selection[1] <= r.post_date \div 24
       /\ r.post_date \div 24 <= date_range_selection[2]

(* C8: the filtered view is exactly the canonical rows that pass the
   content-type test and the inclusive day-granular date test; the two
   filters commute and are idempotent, "All" leaves the rows alone, an empty
   selection gives an empty view, and the canonical dataset stays what
   load_data returned. *)
C8_FilteredViewIsConjunction ==
    /\ df_filtered.columns = df.columns
    /\ df_filtered.rows = SelectSeq(df.rows, LAMBDA r : KeepByType(r) /\ KeepByDate(r))
    /\ DateFilter(CategoryFilter(df, selected_post_types),
                  date_filter_enabled, date_range_selection)
         = CategoryFilter(DateFilter(df, date_filter_enabled, date_range_selection),
                          selected_post_types)
    /\ CategoryFilter(df_filtered, selected_post_types) = df_filtered
    /\ DateFilter(df_filtered, date_filter_enabled, date_range_selection) = df_filtered
    /\ "All" \in selected_post_types => CategoryFilter(df, selected_post_types) = df
    /\ selected_post_types = {} => df_filtered.rows = <<>>
    /\ df = Loaded(uploaded_file).df

C8_Witness ==
    /\ CategoryFilterApplied
    /\ date_filter_enabled
    /\ date_range_selection[1] = date_range_selection[2]
    /\ Len(df_filtered.rows) > 0
    /\ Len(df_filtered.rows) < Len(CategoryFilter(df, selected_post_types).rows)
    /\ \E j \in 1..Len(df_filtered.rows) :
          df_filtered.rows[j].post_date % 24 # 0

Engagement(rows, i) == rows[i].total_engagement_per_post

(* C9: the top-20 selection of a non-empty filtered view t has min(20, |t|)
   rows, all of them distinct rows of t, in descending engagement; no row
   left out has more engagement than a row taken, and among rows of equal
   engagement the earlier rows of t are taken first and shown first. *)
C9_TopTwentyStable ==
    views.top_posts.computed =>
      LET t == df_filtered.rows
          top == views.top_posts.rows
          Taken == {top[i].idx : i \in 1..Len(top)}
      IN  /\ Len(top) = (IF Len(t) < TopN THEN Len(t) ELSE TopN)
          /\ \A i \in 1..Len(top) : \E k \in 1..Len(t) : t[k] = top[i]
          /\ Cardinality(Taken) = Len(top)
          /\ \A i \in 1..(Len(top) - 1) :
                \/ Engagement(top, i) > Engagement(top, i + 1)
                \/ /\ Engagement(top, i) = Engagement(top, i + 1)
                   /\ top[i].idx < top[i + 1].idx
          /\ \A k \in 1..Len(t) : t[k].idx \notin Taken =>
                \A i \in 1..Len(top) :
                    \/ Engagement(t, k) < Engagement(top, i)
                    \/ /\ Engagement(t, k) = Engagement(top, i)
                       /\ top[i].idx < t[k].idx

C9_Witness ==
    /\ views.top_posts.computed
    /\ CategoryFilterApplied
    /\ Len(df_filtered.rows) > TopN
    /\ Len(df_filtered.rows) < Len(df.rows)
    /\ Engagement(views.top_posts.rows, 1) > Engagement(views.top_posts.rows, TopN)
    /\ Engagement(df_filtered.rows, 1) < Engagement(views.top_posts.rows, 1)
    /\ \E k \in 1..Len(df_filtered.rows) :
          /\ \A i \in 1..TopN : views.top_posts.rows[i].idx # df_filtered.rows[k].idx
          /\ Engagement(df_filtered.rows, k) = Engagement(views.top_posts.rows, TopN)

(* C10: the per-content-type sums have one row per distinct content_type of
   the filtered view, and each metric summed over the returned categories
   equals that metric summed over the whole filtered view, rows with a
   missing content_type cell included. *)
C10_GroupSumsConserve ==
    views.type_engagement.computed =>
      /\ \A i, j \in 1..Len(views.type_engagement.rows) :
            i # j => views.type_engagement.rows[i].content_type
                       # views.type_engagement.rows[j].content_type
      /\ \A ty \in unique_types(df_filtered) \ {NaN} :
            \E i \in 1..Len(views.type_engagement.rows) :
                views.type_engagement.rows[i].content_type = ty
      /\ SumOf(views.type_engagement.rows, "likes") = SumOf(df_filtered.rows, "likes")
      /\ SumOf(views.type_engagement.rows, "shares") = SumOf(df_filtered.rows, "shares")
      /\ SumOf(views.type_engagement.rows, "comments") = SumOf(df_filtered.rows, "comments")

====
